---- MODULE Spec2Model ----
(***************************************************************************)
(* Workflow graph of the software factory: the steps of agent/nodes, the   *)
(* routers and edge maps of agent/graph.py, and the run-to-completion      *)
(* executor that threads one State dict through them.                      *)
(*                                                                         *)
(* Encoding of Python values:                                              *)
(*   - State is a function from key to value; a key that was never written *)
(*     is outside its DOMAIN (main.py passes six keys, poll.py all).       *)
(*   - Optional[T] is a sequence of length <= 1: None is <<>>, a value v   *)
(*     is <<v>>.  A list is a sequence, so Optional[List] is <<>> or       *)
(*     <<list>>.                                                           *)
(*   - A JSON object whose content is not read is the set of its keys.     *)
(*   - A step returns its partial update, or Raise when it raises.         *)
(***************************************************************************)
EXTENDS Integers, Sequences, FiniteSets, TLC

VARIABLES
    state,       \* the AgentState dict threaded through the run
    node,        \* the step the executor invokes next, "END" or "RAISED"
    prev,        \* history: the step invoked last ("start" before the first)
    last_route,  \* history: what the router of prev returned
    sup_iter,    \* history: iteration_count seen by the latest supervisor call
    pass_log,    \* history: entries the reviewers built since the last draft
    failed_seen, \* history: some step of the run returned status = failed
    loop_log,    \* history: "error" per validation that found one, "correction"
                 \* per correction step, "forced" per forced pass
    poll,        \* the polling loop of poll.py: the tracker column of each
                 \* issue and where the loop is (NoPoll outside that loop)
    drafter      \* history: the drafting step that ran last, "none" before

vars == <<state, node, prev, last_route, sup_iter, pass_log, failed_seen, loop_log, poll, drafter>>

\* A graph run looked at on its own: no polling loop around it.
NoPoll == [alive |-> FALSE]

\* Largest number of work items the architect's breakdown holds.
MaxItems == 3

MAX_ITERATIONS == 5

None == <<>>
Some(v) == <<v>>
Val(o) == o[1]

\* state.get(k, d)
Get(s, k, d) == IF k \in DOMAIN s THEN s[k] ELSE d

\* Mutant: a key the State already holds keeps its value.
Merge_first_writer(s, u) ==
    [k \in (DOMAIN s) \cup (DOMAIN u) |-> IF k \in DOMAIN s THEN s[k] ELSE u[k]]

\* langgraph's update of the state channels: last writer wins per key.
Merge(s, u) == [k \in (DOMAIN s) \cup (DOMAIN u) |-> IF k \in DOMAIN u THEN u[k] ELSE s[k]]

\* A step that raises returns no update.
Raise == [raise |-> TRUE]
Raised(u) == "raise" \in DOMAIN u

\* Mutant: the new entry put in front of the log.
Appended_in_front(s, m) == <<m>> \o Get(s, "messages", <<>>)

\* messages + [m], as every step composes it
Appended(s, m) == Append(Get(s, "messages", <<>>), m)

ItemTypes == {"CONTRACT", "BACKEND", "FRONTEND"}

\* item_type.lower()
Lower(t) ==
    CASE t = "CONTRACT" -> "contract"
      [] t = "BACKEND" -> "backend"
      [] t = "FRONTEND" -> "frontend"

\* bool(x) of an Optional[List]
TruthyList(o) == o # None /\ Val(o) # <<>>

\* bool(x) of an Optional[str]
TruthyStr(o) == o # None /\ Val(o) # ""

\* bool(x) of an Optional JSON object
TruthyObj(o) == o # None /\ Val(o) # {}

(***************************************************************************)
(* Routers (graph.py).  Each returns its symbolic destination, or "RAISE"  *)
(* where the Python raises.                                                *)
(***************************************************************************)
\* Mutant: the erd phase is sent to the product manager too.
route_entry_point_erd_to_pm(s) ==
    LET phase == Get(s, "workflow_phase", "prd") IN
    IF phase = "prd" THEN "product_manager"
    ELSE IF phase = "erd" THEN "product_manager"
    ELSE IF phase = "implement" THEN "classifier"
    ELSE IF Get(s, "is_sub_issue", FALSE) THEN "classifier"
    ELSE "product_manager"

route_entry_point(s) ==
    LET phase == Get(s, "workflow_phase", "prd") IN
    IF phase = "prd" THEN "product_manager"
    ELSE IF phase = "erd" THEN "classifier"
    ELSE IF phase = "implement" THEN "classifier"
    ELSE IF Get(s, "is_sub_issue", FALSE) THEN "classifier"
    ELSE "product_manager"

route_from_classifier(s) ==
    LET phase == Get(s, "workflow_phase", "")
        request_type == Get(s, "request_type", Some("general")) IN
    IF phase = "implement"
    THEN IF request_type = Some("requires_contract") THEN "contractor"
         ELSE IF request_type = Some("infrastructure") THEN "infra_engineer"
         ELSE "software_engineer"
    ELSE IF request_type = Some("requires_contract") THEN "contractor_planner"
         ELSE IF request_type = Some("infrastructure") THEN "infra_engineer_planner"
         ELSE "software_engineer_planner"

\* Mutant: infrastructure requests are sent back to the software engineer.
route_from_supervisor_no_infra(s) ==
    IF "status" \notin DOMAIN s THEN "RAISE"
    ELSE IF s["status"] = "approved" THEN "publisher"
    ELSE IF s["status"] = "drafting"
    THEN LET request_type == Get(s, "request_type", Some("general")) IN
         IF TruthyList(Get(s, "work_items", None)) THEN "contractor"
         ELSE IF request_type = Some("requires_contract") THEN "contractor"
         ELSE "software_engineer"
    ELSE "end"

route_from_supervisor(s) ==
    IF "status" \notin DOMAIN s THEN "RAISE"
    ELSE IF s["status"] = "approved" THEN "publisher"
    ELSE IF s["status"] = "drafting"
    THEN LET request_type == Get(s, "request_type", Some("general")) IN
         IF TruthyList(Get(s, "work_items", None)) THEN "contractor"
         ELSE IF request_type = Some("requires_contract") THEN "contractor"
         ELSE IF request_type = Some("infrastructure") THEN "infra_engineer"
         ELSE "software_engineer"
    ELSE "end"

\* status.startswith("working_")
StartsWithWorking(status) ==
    status \in {"working_" \o Lower(t) : t \in ItemTypes}

\* Mutant: every status but stack_complete goes on to drafting.
route_from_stack_manager_always_drafts(s) ==
    LET status == Get(s, "status", "") IN
    IF status = "stack_complete" THEN "deployer"
    ELSE "contractor"

route_from_stack_manager(s) ==
    LET status == Get(s, "status", "") IN
    IF StartsWithWorking(status) THEN "contractor"
    ELSE IF status = "stack_complete" THEN "deployer"
    ELSE "end"

\* Mutant: the two specialised reviewers exchanged.
route_to_first_reviewer_swapped(s) ==
    LET current_work == Get(s, "current_work_item", None) IN
    IF current_work # None
    THEN LET work_type == Val(current_work).type IN
         IF work_type = "BACKEND" THEN "design"
         ELSE IF work_type = "FRONTEND" THEN "compliance"
         ELSE "security"
    ELSE "security"

route_to_first_reviewer(s) ==
    LET current_work == Get(s, "current_work_item", None) IN
    IF current_work # None
    THEN LET work_type == Val(current_work).type IN
         IF work_type = "BACKEND" THEN "compliance"
         ELSE IF work_type = "FRONTEND" THEN "design"
         ELSE "security"
    ELSE "security"

\* Mutant: len(work_items) taken without the truthiness test.
route_from_publisher_unguarded(s) ==
    LET work_items == Get(s, "work_items", Some(<<>>))
        current_index == Get(s, "current_work_index", Some(0)) IN
    IF work_items = None \/ current_index = None THEN "RAISE"
    ELSE IF Val(current_index) < Len(Val(work_items)) THEN "stack_manager"
    ELSE "deployer"

\* Mutant: the index compared with <= in place of <.
route_from_publisher_inclusive(s) ==
    LET work_items == Get(s, "work_items", Some(<<>>))
        current_index == Get(s, "current_work_index", Some(0)) IN
    IF TruthyList(work_items)
    THEN IF current_index = None THEN "RAISE"
         ELSE IF Val(current_index) <= Len(Val(work_items)) THEN "stack_manager"
         ELSE "deployer"
    ELSE "deployer"

route_from_publisher(s) ==
    LET work_items == Get(s, "work_items", Some(<<>>))
        current_index == Get(s, "current_work_index", Some(0)) IN
    IF TruthyList(work_items)
    THEN IF current_index = None THEN "RAISE"
         ELSE IF Val(current_index) < Len(Val(work_items)) THEN "stack_manager"
         ELSE "deployer"
    ELSE "deployer"

\* Mutant: the END sentinel returned in place of the key "end".
route_from_test_agent_sentinel(s) ==
    IF Get(s, "test_status", Some("skipped")) = Some("passed") THEN "telemetry" ELSE "__end__"

route_from_test_agent(s) ==
    IF Get(s, "test_status", Some("skipped")) = Some("passed") THEN "telemetry" ELSE "end"

\* Mutant: a failed telemetry query reverts as well.
route_from_telemetry_any_error(s) ==
    IF Get(s, "telemetry_status", None) \in {Some("error_spike"), Some("error")}
    THEN "reverter" ELSE "end"

route_from_telemetry(s) ==
    IF Get(s, "telemetry_status", None) = Some("error_spike") THEN "reverter" ELSE "end"

route_from_product_manager(s) ==
    IF Get(s, "status", "") = "prd_ready" THEN "approval_gate" ELSE "end"

\* Mutant: a posted PRD lets the run go on to the classifier.
route_from_approval_gate_goes_on(s) ==
    IF Get(s, "status", "") = "awaiting_prd_review" THEN "classifier" ELSE "end"

route_from_approval_gate(s) == "end"

route_from_planner(s) ==
    IF Get(s, "status", "") = "spec_ready" THEN "sub_issue_handler" ELSE "end"

(***************************************************************************)
(* The graph of build_graph: the router attached to each step and the edge *)
(* map it is attached with.  A step with an unconditional edge has the     *)
(* one-entry map of its target.                                            *)
(***************************************************************************)
Drafters == {"contractor", "infra_engineer", "software_engineer"}
Planners == {"contractor_planner", "software_engineer_planner", "infra_engineer_planner"}
Nodes ==
    {"entry_router", "product_manager", "approval_gate", "classifier",
     "sub_issue_handler", "architect", "stack_manager", "security", "compliance",
     "design", "supervisor", "publisher", "deployer", "test_agent", "telemetry",
     "reverter"} \cup Drafters \cup Planners

Router(n, s) ==
    CASE n = "entry_router" -> route_entry_point(s)
      [] n = "product_manager" -> route_from_product_manager(s)
      [] n = "approval_gate" -> route_from_approval_gate(s)
      [] n = "classifier" -> route_from_classifier(s)
      [] n \in Planners -> route_from_planner(s)
      [] n = "sub_issue_handler" -> "end"
      [] n = "architect" -> "stack_manager"
      [] n = "stack_manager" -> route_from_stack_manager(s)
      [] n \in Drafters -> route_to_first_reviewer(s)
      [] n = "compliance" -> "security"
      [] n = "design" -> "security"
      [] n = "security" -> "supervisor"
      [] n = "supervisor" -> route_from_supervisor(s)
      [] n = "publisher" -> route_from_publisher(s)
      [] n = "deployer" -> "test_agent"
      [] n = "test_agent" -> route_from_test_agent(s)
      [] n = "telemetry" -> route_from_telemetry(s)
      [] n = "reverter" -> "end"

EdgeMap(n) ==
    CASE n = "entry_router" -> [product_manager |-> "product_manager", classifier |-> "classifier"]
      [] n = "product_manager" -> [approval_gate |-> "approval_gate", end |-> "END"]
      [] n = "approval_gate" -> [classifier |-> "classifier", end |-> "END"]
      [] n = "classifier" ->
            [contractor_planner |-> "contractor_planner",
             software_engineer_planner |-> "software_engineer_planner",
             infra_engineer_planner |-> "infra_engineer_planner",
             contractor |-> "architect",
             infra_engineer |-> "infra_engineer",
             software_engineer |-> "software_engineer"]
      [] n \in Planners -> [sub_issue_handler |-> "sub_issue_handler", end |-> "END"]
      [] n = "sub_issue_handler" -> [end |-> "END"]
      [] n = "architect" -> [stack_manager |-> "stack_manager"]
      [] n = "stack_manager" -> [contractor |-> "contractor", deployer |-> "deployer", end |-> "END"]
      [] n \in Drafters -> [security |-> "security", compliance |-> "compliance", design |-> "design"]
      [] n = "compliance" -> [security |-> "security"]
      [] n = "design" -> [security |-> "security"]
      [] n = "security" -> [supervisor |-> "supervisor"]
      [] n = "supervisor" ->
            [contractor |-> "contractor", infra_engineer |-> "infra_engineer",
             software_engineer |-> "software_engineer", publisher |-> "publisher",
             end |-> "END"]
      [] n = "publisher" -> [stack_manager |-> "stack_manager", deployer |-> "deployer"]
      [] n = "deployer" -> [test_agent |-> "test_agent"]
      [] n = "test_agent" -> [telemetry |-> "telemetry", end |-> "END"]
      [] n = "telemetry" -> [reverter |-> "reverter", end |-> "END"]
      [] n = "reverter" -> [end |-> "END"]

(***************************************************************************)
(* Steps (agent/nodes).  Each takes the State and the outcome of its       *)
(* external calls and returns its partial update.                          *)
(***************************************************************************)

\* What a drafting step leaves in current_contract: a JSON text, the draft
\* or the parse-error document substituted for unparseable output.  No step
\* or router reads inside it, so the two are one value here.
Drafts == {"json"}

\* Mutant: the pass counter is written back without the increment.
contract_engineer_node_no_increment(s, content) ==
    [current_contract |-> Some(content),
     status |-> "reviewing",
     iteration_count |-> Get(s, "iteration_count", 0),
     review_feedback |-> <<>>]

\* Mutant: the feedback of the previous pass is not cleared.
contract_engineer_node_stale(s, content) ==
    [current_contract |-> Some(content),
     status |-> "reviewing",
     iteration_count |-> Get(s, "iteration_count", 0) + 1]

contract_engineer_node(s, content) ==
    [current_contract |-> Some(content),
     status |-> "reviewing",
     iteration_count |-> Get(s, "iteration_count", 0) + 1,
     review_feedback |-> <<>>]

infra_engineer_node(s, content) ==
    [current_contract |-> Some(content),
     status |-> "reviewing",
     iteration_count |-> Get(s, "iteration_count", 0) + 1,
     review_feedback |-> <<>>]

software_engineer_node(s, content) ==
    [current_contract |-> Some(content),
     status |-> "reviewing",
     iteration_count |-> Get(s, "iteration_count", 0) + 1,
     review_feedback |-> <<>>]

\* What a reviewer's text-generation call yields: a verdict with approved
\* true, one with approved false or missing, text that does not parse, or
\* ("not_an_object") text that parses as JSON but not to an object (a list,
\* a string, null): data.get then raises AttributeError, which the except
\* clause (JSONDecodeError, ValueError) does not catch.
Verdicts == {"approve", "reject", "unparseable", "not_an_object"}

\* ReviewFeedback(agent=..., approved=..., concerns=...)
ReviewFeedback(agent, verdict) ==
    [agent |-> agent,
     approved |-> (verdict = "approve"),
     concerns |-> IF verdict = "unparseable" THEN "Failed to parse review" ELSE "llm"]

security_node(s, verdict) ==
    IF verdict = "not_an_object" THEN Raise
    ELSE [review_feedback |-> Append(Get(s, "review_feedback", <<>>), ReviewFeedback("security", verdict))]

compliance_reviewer_node(s, verdict) ==
    IF verdict = "not_an_object" THEN Raise
    ELSE [review_feedback |-> Append(Get(s, "review_feedback", <<>>), ReviewFeedback("compliance", verdict))]

design_reviewer_node(s, verdict) ==
    IF verdict = "not_an_object" THEN Raise
    ELSE [review_feedback |-> Append(Get(s, "review_feedback", <<>>), ReviewFeedback("design", verdict))]

\* Mutant: the verdict of the last reviewer alone decides.
AllApproved_last_only(reviews) ==
    IF reviews # <<>> THEN reviews[Len(reviews)].approved ELSE FALSE

\* all(fb.approved for fb in reviews) if reviews else False
AllApproved(reviews) ==
    IF reviews # <<>> THEN \A i \in 1..Len(reviews) : reviews[i].approved ELSE FALSE

\* Mutant: the ceiling compared with > instead of >=.
supervisor_node_off_by_one(s) ==
    LET reviews == Get(s, "review_feedback", <<>>)
        iteration == Get(s, "iteration_count", 0) IN
    IF AllApproved(reviews) THEN [status |-> "approved"]
    ELSE IF iteration > MAX_ITERATIONS
    THEN [status |-> "failed",
          messages |-> Appended(s, "Failed to reach approval after 5 iterations.")]
    ELSE [status |-> "drafting"]

\* Mutant: the ceiling tested before the approvals.
supervisor_node_ceiling_first(s) ==
    LET reviews == Get(s, "review_feedback", <<>>)
        iteration == Get(s, "iteration_count", 0) IN
    IF iteration >= MAX_ITERATIONS
    THEN [status |-> "failed",
          messages |-> Appended(s, "Failed to reach approval after 5 iterations.")]
    ELSE IF AllApproved(reviews) THEN [status |-> "approved"]
    ELSE [status |-> "drafting"]

supervisor_node(s) ==
    LET reviews == Get(s, "review_feedback", <<>>)
        iteration == Get(s, "iteration_count", 0) IN
    IF AllApproved(reviews) THEN [status |-> "approved"]
    ELSE IF iteration >= MAX_ITERATIONS
    THEN [status |-> "failed",
          messages |-> Appended(s, "Failed to reach approval after 5 iterations.")]
    ELSE [status |-> "drafting"]

\* Mutant: the tag of the reply taken as it comes.
classifier_node_raw(s, classification) ==
    LET request_type == IF classification = None THEN "general" ELSE Val(classification) IN
    [request_type |-> Some(request_type),
     messages |-> Appended(s, "Classified as: " \o request_type)]

\* classification is data.get("classification") of the parsed reply, None
\* when the reply is not JSON or has no such key.
classifier_node(s, classification) ==
    LET tag == IF classification = None THEN "general" ELSE Val(classification)
        request_type == IF tag \notin {"requires_contract", "infrastructure", "general"}
                        THEN "general" ELSE tag IN
    [request_type |-> Some(request_type),
     messages |-> Appended(s, "Classified as: " \o request_type)]

\* A work item as the architect's JSON gives it: branch_name and status are
\* not set until the stack manager starts the item.
NewItem(t) == [type |-> t, branch_name |-> None, status |-> None]

\* work_items is the parsed "work_items" list ([] on a JSON error or a
\* missing key).
\* Mutant: the breakdown starts at index 1.
architect_node_index_one(s, work_items) ==
    [work_items |-> Some(work_items),
     current_work_index |-> Some(1),
     status |-> IF work_items # <<>> THEN "architected" ELSE "failed",
     messages |-> Appended(s, "Architected work items")]

architect_node(s, work_items) ==
    [work_items |-> Some(work_items),
     current_work_index |-> Some(0),
     status |-> IF work_items # <<>> THEN "architected" ELSE "failed",
     messages |-> Appended(s, "Architected work items")]

\* f"ai/{issue.identifier.lower()}/{item_type.lower()}"
BranchName(issue, item_type) == "ai/" \o issue.identifier_lower \o "/" \o Lower(item_type)

\* Mutant: the item is marked in progress before the branch is created.
pr_stack_manager_node_marks_first(s, branch_ok) ==
    LET work_items == Get(s, "work_items", Some(<<>>))
        current_index == Get(s, "current_work_index", Some(0)) IN
    IF work_items = None \/ current_index = None THEN Raise
    ELSE IF Val(current_index) >= Len(Val(work_items)) THEN [status |-> "stack_complete"]
    ELSE
    LET current_item == Val(work_items)[Val(current_index) + 1]
        issue == Get(s, "current_issue", None) IN
    IF issue = None
    THEN [status |-> "failed", messages |-> Appended(s, "No issue for stack")]
    ELSE
    LET item_type == current_item.type
        stack_base == IF item_type = "CONTRACT"
                      THEN Some(BranchName(Val(issue), "CONTRACT"))
                      ELSE Get(s, "stack_base_branch", Some("main"))
        branch_name == BranchName(Val(issue), item_type)
        started == [current_item EXCEPT !.branch_name = Some(branch_name),
                                        !.status = Some("in_progress")] IN
    IF ~branch_ok
    THEN [work_items |-> Some([Val(work_items) EXCEPT ![Val(current_index) + 1] = started]),
          status |-> "failed", messages |-> Appended(s, "Failed to create branch")]
    ELSE [work_items |-> Some([Val(work_items) EXCEPT ![Val(current_index) + 1] = started]),
          current_work_item |-> Some(started),
          stack_base_branch |-> IF item_type = "CONTRACT" THEN stack_base
                                ELSE Get(s, "stack_base_branch", None),
          status |-> "working_" \o Lower(item_type),
          messages |-> Appended(s, "Started " \o item_type \o " on " \o branch_name)]

pr_stack_manager_node(s, branch_ok) ==
    LET work_items == Get(s, "work_items", Some(<<>>))
        current_index == Get(s, "current_work_index", Some(0)) IN
    IF work_items = None \/ current_index = None THEN Raise
    ELSE IF Val(current_index) >= Len(Val(work_items)) THEN [status |-> "stack_complete"]
    ELSE
    LET current_item == Val(work_items)[Val(current_index) + 1]
        issue == Get(s, "current_issue", None) IN
    IF issue = None
    THEN [status |-> "failed", messages |-> Appended(s, "No issue for stack")]
    ELSE
    LET item_type == current_item.type
        stack_base == IF item_type = "CONTRACT"
                      THEN Some(BranchName(Val(issue), "CONTRACT"))
                      ELSE Get(s, "stack_base_branch", Some("main"))
        branch_name == BranchName(Val(issue), item_type)
        started == [current_item EXCEPT !.branch_name = Some(branch_name),
                                        !.status = Some("in_progress")] IN
    IF ~branch_ok
    THEN [status |-> "failed", messages |-> Appended(s, "Failed to create branch")]
    ELSE [work_items |-> Some([Val(work_items) EXCEPT ![Val(current_index) + 1] = started]),
          current_work_item |-> Some(started),
          stack_base_branch |-> IF item_type = "CONTRACT" THEN stack_base
                                ELSE Get(s, "stack_base_branch", None),
          status |-> "working_" \o Lower(item_type),
          messages |-> Appended(s, "Started " \o item_type \o " on " \o branch_name)]

\* The publish step: records the pull request and advances the stack.
publisher_node(s) ==
    LET work_items == Get(s, "work_items", None)
        base == [status |-> "published",
                 pr_url |-> Some("https://pr"),
                 messages |-> Appended(s, "Published")] IN
    IF TruthyList(work_items)
    THEN Merge(base, [current_work_index |-> Some(Val(Get(s, "current_work_index", Some(0))) + 1)])
    ELSE base

\* Mutant: with no branch recorded the default branch is deployed.
deployer_node_default_branch(s, db_ok, deploy_ok, url) ==
    IF ~db_ok
    THEN [ephemeral_status |-> Some("db_skipped"),
          messages |-> Appended(s, "DB provisioning skipped")]
    ELSE IF ~deploy_ok
    THEN [ephemeral_status |-> Some("deploy_skipped"),
          ephemeral_db_url |-> Some("db"),
          messages |-> Appended(s, "Deploy skipped")]
    ELSE [ephemeral_status |-> Some("deployed"),
          preview_url |-> Some(url),
          ephemeral_db_url |-> Some("db"),
          messages |-> Appended(s, "Deployed")]

\* Mutant: the failed deploy records what deploy_preview returned as the URL.
deployer_node_url_on_failure(s, db_ok, deploy_ok, url) ==
    IF ~TruthyStr(Get(s, "stack_base_branch", None))
    THEN [ephemeral_status |-> Some("skipped"),
          messages |-> Appended(s, "No branch to deploy")]
    ELSE IF ~db_ok
    THEN [ephemeral_status |-> Some("db_skipped"),
          messages |-> Appended(s, "DB provisioning skipped")]
    ELSE IF ~deploy_ok
    THEN [ephemeral_status |-> Some("deploy_skipped"),
          preview_url |-> Some(url),
          ephemeral_db_url |-> Some("db"),
          messages |-> Appended(s, "Deploy skipped")]
    ELSE [ephemeral_status |-> Some("deployed"),
          preview_url |-> Some(url),
          ephemeral_db_url |-> Some("db"),
          messages |-> Appended(s, "Deployed")]

\* db and deploy are the outcomes of provision_ephemeral_db and
\* deploy_preview; url is the preview URL a successful deploy printed.
deployer_node(s, db_ok, deploy_ok, url) ==
    IF ~TruthyStr(Get(s, "stack_base_branch", None))
    THEN [ephemeral_status |-> Some("skipped"),
          messages |-> Appended(s, "No branch to deploy")]
    ELSE IF ~db_ok
    THEN [ephemeral_status |-> Some("db_skipped"),
          messages |-> Appended(s, "DB provisioning skipped")]
    ELSE IF ~deploy_ok
    THEN [ephemeral_status |-> Some("deploy_skipped"),
          ephemeral_db_url |-> Some("db"),
          messages |-> Appended(s, "Deploy skipped")]
    ELSE [ephemeral_status |-> Some("deployed"),
          preview_url |-> Some(url),
          ephemeral_db_url |-> Some("db"),
          messages |-> Appended(s, "Deployed")]

\* outcome of the playwright subprocess
TestOutcomes == {"passed", "failed", "timeout", "skipped", "error"}

\* Mutant: the tests are run also when there is no preview URL.
test_agent_node_runs_anyway(s, outcome) ==
    IF outcome \in {"passed", "failed"}
    THEN [test_status |-> Some(outcome),
          test_output |-> Some("output"),
          messages |-> Appended(s, "E2E tests " \o outcome)]
    ELSE [test_status |-> Some(outcome),
          messages |-> Appended(s, "E2E tests " \o outcome)]

test_agent_node(s, outcome) ==
    IF ~TruthyStr(Get(s, "preview_url", None))
    THEN [test_status |-> Some("skipped"),
          messages |-> Appended(s, "No preview URL for testing")]
    ELSE IF outcome \in {"passed", "failed"}
    THEN [test_status |-> Some(outcome),
          test_output |-> Some("output"),
          messages |-> Appended(s, "E2E tests " \o outcome)]
    ELSE [test_status |-> Some(outcome),
          messages |-> Appended(s, "E2E tests " \o outcome)]

ERROR_THRESHOLD == 100

\* What telemetry can observe: Sentry not configured, the query failing, or
\* the sum of the last five error counts.
ErrorSums == {0, ERROR_THRESHOLD, ERROR_THRESHOLD + 1}

RECURSIVE SumSeq(_)
SumSeq(q) == IF q = <<>> THEN 0 ELSE Head(q) + SumSeq(Tail(q))

\* stats[-5:]
LastFive(stats) ==
    IF Len(stats) <= 5 THEN stats ELSE SubSeq(stats, Len(stats) - 4, Len(stats))

\* sum(point[1] for point in stats[-5:]) if stats else 0
RecentErrors(stats) == IF stats # <<>> THEN SumSeq(LastFive(stats)) ELSE 0

\* The per-minute error counts Sentry answers with: none, five that sum to
\* the threshold, five that sum to one more, and six of which the last five
\* sum to the threshold or to nothing.
Stats ==
    {<<>>,
     <<20, 20, 20, 20, 20>>,
     <<20, 20, 20, 20, 21>>,
     <<1, 20, 20, 20, 20, 20>>,
     <<101, 0, 0, 0, 0, 0>>}

\* Mutant: the threshold itself counts as a spike.
telemetry_node_inclusive(s, configured, fetched, recent_errors) ==
    IF ~configured
    THEN [telemetry_status |-> Some("skipped"),
          messages |-> Appended(s, "Sentry not configured")]
    ELSE IF ~fetched
    THEN [telemetry_status |-> Some("error"),
          messages |-> Appended(s, "Failed to fetch Sentry stats")]
    ELSE IF recent_errors >= ERROR_THRESHOLD
    THEN [telemetry_status |-> Some("error_spike"),
          error_count |-> Some(recent_errors),
          action |-> Some("revert"),
          messages |-> Appended(s, "Error spike")]
    ELSE [telemetry_status |-> Some("healthy"),
          error_count |-> Some(recent_errors),
          messages |-> Appended(s, "Production healthy")]

telemetry_node(s, configured, fetched, recent_errors) ==
    IF ~configured
    THEN [telemetry_status |-> Some("skipped"),
          messages |-> Appended(s, "Sentry not configured")]
    ELSE IF ~fetched
    THEN [telemetry_status |-> Some("error"),
          messages |-> Appended(s, "Failed to fetch Sentry stats")]
    ELSE IF recent_errors > ERROR_THRESHOLD
    THEN [telemetry_status |-> Some("error_spike"),
          error_count |-> Some(recent_errors),
          action |-> Some("revert"),
          messages |-> Appended(s, "Error spike")]
    ELSE [telemetry_status |-> Some("healthy"),
          error_count |-> Some(recent_errors),
          messages |-> Appended(s, "Production healthy")]

\* outcome of gh pr view and the revert: the merge commit was found and
\* reverted, the PR is not merged, or a subprocess raised.
RevertOutcomes == {"completed", "skipped", "failed"}

reverter_node(s, outcome) ==
    IF ~TruthyStr(Get(s, "pr_url", None))
    THEN [revert_status |-> Some("skipped")]
    ELSE IF outcome = "completed"
    THEN [revert_status |-> Some("completed"),
          reverted_commit |-> Some("sha"),
          messages |-> Appended(s, "Reverted commit")]
    ELSE IF outcome = "skipped"
    THEN [revert_status |-> Some("skipped"),
          messages |-> Appended(s, "PR not merged, nothing to revert")]
    ELSE [revert_status |-> Some("failed"),
          messages |-> Appended(s, "Revert failed")]

\* The PRD the product manager parsed, as the set of its keys: a PRD, the
\* empty object, or the error document it substitutes on a parse failure.
\* A parsed PRD by the keys it has; "user_stories" alone stands for a PRD
\* whose user stories are not objects, on which format_prd_for_review
\* raises (s.get on a string).
StoriesNotObjects == {"user_stories"}

Prds == {{"title", "user_stories"}, {}, {"error", "raw"}, StoriesNotObjects}

product_manager_node(s, prd) ==
    [prd |-> Some(prd),
     status |-> "prd_ready",
     messages |-> Appended(s, "Product Manager created PRD")]

approval_gate_node(s) ==
    IF ~TruthyObj(Get(s, "prd", None))
    THEN [status |-> "failed", messages |-> Appended(s, "No PRD to review")]
    ELSE IF Get(s, "prd", None) = Some(StoriesNotObjects) THEN Raise
    ELSE [status |-> "awaiting_prd_review",
          messages |-> Appended(s, "PRD posted for review - awaiting human approval")]

\* result of run_claude_code: an error, a response that parses to a spec,
\* or a response that does not.
PlannerResults == {"error", "spec", "unparsed"}

PlannerUpdate(s, result, who) ==
    IF result = "error"
    THEN [technical_spec |-> Some({"error"}),
          status |-> "spec_failed",
          messages |-> Appended(s, who \o " planner failed")]
    ELSE [technical_spec |-> Some(IF result = "spec" THEN {"title"} ELSE {"error", "raw"}),
          status |-> "spec_ready",
          messages |-> Appended(s, who \o " Planner created technical spec")]

contractor_planner_node(s, result) == PlannerUpdate(s, result, "Contractor")

infra_engineer_planner_node(s, result) == PlannerUpdate(s, result, "Infra")

\* comments_text is bound only inside "if issue:".
software_engineer_planner_node(s, result) ==
    IF Get(s, "current_issue", None) = None THEN Raise
    ELSE PlannerUpdate(s, result, "Software")

\* outcome of the issue tracker: LinearAdapter() raising for a missing key,
\* the sub-issue created, none returned, or a call raising.
HandlerOutcomes == {"no_api_key", "created", "not_created", "call_raised"}

sub_issue_handler_node(s, outcome) ==
    IF ~TruthyObj(Get(s, "technical_spec", None)) \/ Get(s, "current_issue", None) = None
    THEN [status |-> "failed",
          messages |-> Appended(s, "No technical spec or issue to create sub-issue from")]
    ELSE IF outcome = "no_api_key" THEN Raise
    ELSE IF outcome = "created"
    THEN [status |-> "awaiting_technical_review",
          messages |-> Appended(s, "Created sub-issue for technical review")]
    ELSE IF outcome = "not_created"
    THEN [status |-> "failed", messages |-> Appended(s, "Failed to create sub-issue")]
    ELSE [status |-> "failed", messages |-> Appended(s, "Error creating sub-issue")]

(***************************************************************************)
(* Initial State of a run.                                                 *)
(***************************************************************************)

\* The issue poll.py hands over (issue.id, issue.identifier.lower()).
Issue == [id |-> "issue-1", identifier_lower |-> "eng-1"]

\* run_factory: six keys, everything else unset.
MainState ==
    [task_description |-> "task",
     current_contract |-> None,
     review_feedback |-> <<>>,
     iteration_count |-> 0,
     status |-> "drafting",
     messages |-> <<>>]

\* determine_workflow_phase, for the three action columns.
PhaseInfos ==
    {[phase |-> "prd", is_sub_issue |-> FALSE],
     [phase |-> "erd", is_sub_issue |-> FALSE],
     [phase |-> "implement", is_sub_issue |-> TRUE]}

\* process_issue: every key, the optional ones None.
PollState(phase_info) ==
    [task_description |-> "task",
     current_contract |-> None,
     review_feedback |-> <<>>,
     iteration_count |-> 0,
     status |-> "drafting",
     messages |-> <<>>,
     current_issue |-> Some(Issue),
     pr_url |-> None,
     request_type |-> None,
     work_items |-> None,
     current_work_index |-> None,
     current_work_item |-> None,
     stack_base_branch |-> None,
     ephemeral_status |-> None,
     preview_url |-> None,
     ephemeral_db_url |-> None,
     test_status |-> None,
     test_output |-> None,
     telemetry_status |-> None,
     error_count |-> None,
     action |-> None,
     revert_status |-> None,
     reverted_commit |-> None,
     is_sub_issue |-> phase_info.is_sub_issue,
     parent_issue |-> None,
     technical_spec |-> None,
     prd |-> None,
     prd_feedback |-> None,
     workflow_phase |-> phase_info.phase]

Init ==
    /\ \/ state = MainState
       \/ \E phase_info \in PhaseInfos : state = PollState(phase_info)
    /\ node = "entry_router"
    /\ prev = "start"
    /\ last_route = "none"
    /\ sup_iter = None
    /\ pass_log = <<>>
    /\ failed_seen = FALSE
    /\ loop_log = <<>>
    /\ poll = NoPoll
    /\ drafter = "none"

(***************************************************************************)
(* The executor (app.invoke): invoke the current step, merge its update,   *)
(* evaluate the step's router on the merged State, follow the edge map.    *)
(* A raising step or router, or an unmapped destination, aborts the run.   *)
(***************************************************************************)
\* The update of a step carries status = failed.
ReturnsFailed(u) == ~Raised(u) /\ "status" \in DOMAIN u /\ u["status"] = "failed"

Invoke(n, u) ==
    /\ node = n
    /\ prev' = n
    /\ failed_seen' = (failed_seen \/ ReturnsFailed(u))
    /\ loop_log' = loop_log
    /\ poll' = poll
    /\ drafter' = IF n \in Drafters /\ ~Raised(u) THEN n ELSE drafter
    /\ IF Raised(u)
       THEN /\ state' = state
            /\ last_route' = "none"
            /\ node' = "RAISED"
       ELSE LET merged == Merge(state, u)
                dest == Router(n, merged) IN
            /\ state' = merged
            /\ last_route' = dest
            /\ node' = IF dest \in DOMAIN EdgeMap(n) THEN EdgeMap(n)[dest] ELSE "RAISED"

\* Steps whose text-generation call (llm.invoke) is made outside any try.
LlmNodes ==
    Drafters \cup {"security", "compliance", "design", "classifier", "architect",
                   "product_manager"}

LlmRaises ==
    /\ node \in LlmNodes
    /\ Invoke(node, Raise)
    /\ UNCHANGED <<sup_iter, pass_log>>

EntryRouter ==
    /\ Invoke("entry_router", state)
    /\ UNCHANGED <<sup_iter, pass_log>>

ProductManager ==
    /\ \E prd \in Prds : Invoke("product_manager", product_manager_node(state, prd))
    /\ UNCHANGED <<sup_iter, pass_log>>

ApprovalGate ==
    /\ Invoke("approval_gate", approval_gate_node(state))
    /\ UNCHANGED <<sup_iter, pass_log>>

RequestTypes == {"requires_contract", "infrastructure", "general"}

\* What the reply can carry: no tag, one of the three tags, or another word.
Classifications == {None} \cup {Some(rt) : rt \in RequestTypes \cup {"bugfix"}}

Classifier ==
    /\ \E c \in Classifications : Invoke("classifier", classifier_node(state, c))
    /\ UNCHANGED <<sup_iter, pass_log>>

ContractorPlanner ==
    /\ \E r \in PlannerResults : Invoke("contractor_planner", contractor_planner_node(state, r))
    /\ UNCHANGED <<sup_iter, pass_log>>

SoftwareEngineerPlanner ==
    /\ \E r \in PlannerResults :
          Invoke("software_engineer_planner", software_engineer_planner_node(state, r))
    /\ UNCHANGED <<sup_iter, pass_log>>

InfraEngineerPlanner ==
    /\ \E r \in PlannerResults :
          Invoke("infra_engineer_planner", infra_engineer_planner_node(state, r))
    /\ UNCHANGED <<sup_iter, pass_log>>

SubIssueHandler ==
    /\ \E o \in HandlerOutcomes : Invoke("sub_issue_handler", sub_issue_handler_node(state, o))
    /\ UNCHANGED <<sup_iter, pass_log>>

Architect ==
    /\ \E n \in 0..MaxItems : \E types \in [1..n -> ItemTypes] :
          Invoke("architect", architect_node(state, [i \in 1..n |-> NewItem(types[i])]))
    /\ UNCHANGED <<sup_iter, pass_log>>

StackManager ==
    /\ \E branch_ok \in BOOLEAN : Invoke("stack_manager", pr_stack_manager_node(state, branch_ok))
    /\ UNCHANGED <<sup_iter, pass_log>>

Contractor ==
    /\ \E c \in Drafts : Invoke("contractor", contract_engineer_node(state, c))
    /\ pass_log' = <<>>
    /\ UNCHANGED sup_iter

InfraEngineer ==
    /\ \E c \in Drafts : Invoke("infra_engineer", infra_engineer_node(state, c))
    /\ pass_log' = <<>>
    /\ UNCHANGED sup_iter

SoftwareEngineer ==
    /\ \E c \in Drafts : Invoke("software_engineer", software_engineer_node(state, c))
    /\ pass_log' = <<>>
    /\ UNCHANGED sup_iter

Compliance ==
    /\ \E v \in Verdicts :
          /\ Invoke("compliance", compliance_reviewer_node(state, v))
          /\ pass_log' = IF v = "not_an_object" THEN pass_log
                         ELSE Append(pass_log, ReviewFeedback("compliance", v))
    /\ UNCHANGED sup_iter

Design ==
    /\ \E v \in Verdicts :
          /\ Invoke("design", design_reviewer_node(state, v))
          /\ pass_log' = IF v = "not_an_object" THEN pass_log
                         ELSE Append(pass_log, ReviewFeedback("design", v))
    /\ UNCHANGED sup_iter

Security ==
    /\ \E v \in Verdicts :
          /\ Invoke("security", security_node(state, v))
          /\ pass_log' = IF v = "not_an_object" THEN pass_log
                         ELSE Append(pass_log, ReviewFeedback("security", v))
    /\ UNCHANGED sup_iter

Supervisor ==
    /\ Invoke("supervisor", supervisor_node(state))
    /\ sup_iter' = Some(Get(state, "iteration_count", 0))
    /\ UNCHANGED pass_log

Publisher ==
    /\ Invoke("publisher", publisher_node(state))
    /\ UNCHANGED <<sup_iter, pass_log>>

Deployer ==
    /\ \E db_ok \in BOOLEAN, deploy_ok \in BOOLEAN, url \in {"", "https://preview"} :
          Invoke("deployer", deployer_node(state, db_ok, deploy_ok, url))
    /\ UNCHANGED <<sup_iter, pass_log>>

TestAgent ==
    /\ \E o \in TestOutcomes : Invoke("test_agent", test_agent_node(state, o))
    /\ UNCHANGED <<sup_iter, pass_log>>

Telemetry ==
    /\ \E configured \in BOOLEAN, fetched \in BOOLEAN, stats \in Stats :
          Invoke("telemetry", telemetry_node(state, configured, fetched, RecentErrors(stats)))
    /\ UNCHANGED <<sup_iter, pass_log>>

Reverter ==
    /\ \E o \in RevertOutcomes : Invoke("reverter", reverter_node(state, o))
    /\ UNCHANGED <<sup_iter, pass_log>>

Next ==
    \/ EntryRouter
    \/ ProductManager
    \/ ApprovalGate
    \/ Classifier
    \/ ContractorPlanner
    \/ SoftwareEngineerPlanner
    \/ InfraEngineerPlanner
    \/ SubIssueHandler
    \/ Architect
    \/ StackManager
    \/ Contractor
    \/ InfraEngineer
    \/ SoftwareEngineer
    \/ Compliance
    \/ Design
    \/ Security
    \/ Supervisor
    \/ Publisher
    \/ Deployer
    \/ TestAgent
    \/ Telemetry
    \/ Reverter
    \/ LlmRaises

Spec == Init /\ [][Next]_vars

\* The executor never pauses between steps: a run that has not ended takes
\* its next step.
FairSpec == Spec /\ WF_vars(Next)

(***************************************************************************)
(* The implementation loop (nodes/implementation_engineer.py): implement,  *)
(* validate, correct, validate again.                                      *)
(***************************************************************************)

\* run_claude_code: the dict it returns ("result" and "error", one of them
\* None unless the command succeeded with text on stderr).
ClaudeResults ==
    {[result |-> Some("done"), error |-> None],
     [result |-> Some("done"), error |-> Some("stderr")],
     [result |-> None, error |-> Some("Exit code: 1")],
     [result |-> None, error |-> Some("Command timed out")]}

implementation_engineer_node(s, result) ==
    LET current_work == Get(s, "current_work_item", None)
        \* a work item is a non-empty dict: truthy whenever it is not None
        mode == IF current_work # None THEN Val(current_work).type
                ELSE Get(s, "implementation_engineer_mode", "BACKEND") IN
    [claude_code_result |-> result,
     implementation_engineer_mode |-> mode,
     status |-> "implementation_ready"]

\* implementation_engineer_correction_node counting each correction twice.
implementation_engineer_correction_node_double(s, result) ==
    LET correction_count == Get(s, "correction_count", 0) + 2 IN
    [claude_code_result |-> result,
     correction_count |-> correction_count,
     status |-> "implementation_ready"]

implementation_engineer_correction_node(s, result) ==
    LET correction_count == Get(s, "correction_count", 0) + 1 IN
    [claude_code_result |-> result,
     correction_count |-> correction_count,
     status |-> "implementation_ready"]

\* validation_node with the ceiling test moved to 4.
validation_node_ceiling_four(s) ==
    LET result == Get(s, "claude_code_result", [error |-> None])
        correction_count == Get(s, "correction_count", 0) IN
    IF TruthyStr(result.error)
    THEN IF correction_count >= 4
         THEN [validation_status |-> "passed",
               validation_errors |-> None,
               status |-> "reviewing"]
         ELSE [validation_status |-> "failed",
               validation_errors |-> result.error,
               status |-> "needs_correction"]
    ELSE [validation_status |-> "passed",
          validation_errors |-> None,
          status |-> "reviewing"]

\* validation_node with the ceiling test moved to 2.
validation_node_ceiling_two(s) ==
    LET result == Get(s, "claude_code_result", [error |-> None])
        correction_count == Get(s, "correction_count", 0) IN
    IF TruthyStr(result.error)
    THEN IF correction_count >= 2
         THEN [validation_status |-> "passed",
               validation_errors |-> None,
               status |-> "reviewing"]
         ELSE [validation_status |-> "failed",
               validation_errors |-> result.error,
               status |-> "needs_correction"]
    ELSE [validation_status |-> "passed",
          validation_errors |-> None,
          status |-> "reviewing"]

validation_node(s) ==
    LET result == Get(s, "claude_code_result", [error |-> None])
        correction_count == Get(s, "correction_count", 0) IN
    IF TruthyStr(result.error)
    THEN IF correction_count >= 3
         THEN [validation_status |-> "passed",
               validation_errors |-> None,
               status |-> "reviewing"]
         ELSE [validation_status |-> "failed",
               validation_errors |-> result.error,
               status |-> "needs_correction"]
    ELSE [validation_status |-> "passed",
          validation_errors |-> None,
          status |-> "reviewing"]

\* The router attached to the validation step: back to the correction step
\* while validation failed, on to review otherwise.
route_from_validation(s) ==
    IF Get(s, "validation_status", "") = "failed" THEN "correction" ELSE "review"

ImplNodes == {"implementation_engineer", "validation", "correction"}

ImplRouter(n, s) ==
    CASE n = "implementation_engineer" -> "validation"
      [] n = "correction" -> "validation"
      [] n = "validation" -> route_from_validation(s)

\* Review lies outside the loop: reaching it ends the loop.
ImplEdgeMap(n) ==
    CASE n = "implementation_engineer" -> [validation |-> "validation"]
      [] n = "correction" -> [validation |-> "validation"]
      [] n = "validation" -> [correction |-> "correction", review |-> "END"]

\* The State the loop is entered with: a direct run, a polled run, or a
\* polled run on a started work item.
ImplStates ==
    {MainState}
    \cup {PollState(phase_info) : phase_info \in PhaseInfos}
    \cup {[PollState([phase |-> "implement", is_sub_issue |-> TRUE])
              EXCEPT !["current_work_item"] =
                  Some([NewItem(t) EXCEPT !.status = Some("in_progress")])] :
          t \in ItemTypes}

ImplInit ==
    /\ state \in ImplStates
    /\ node = "implementation_engineer"
    /\ prev = "start"
    /\ last_route = "none"
    /\ sup_iter = None
    /\ pass_log = <<>>
    /\ failed_seen = FALSE
    /\ loop_log = <<>>
    /\ poll = NoPoll
    /\ drafter = "none"

ImplInvoke(n, u) ==
    /\ node = n
    /\ prev' = n
    /\ LET merged == Merge(state, u)
           dest == ImplRouter(n, merged) IN
       /\ state' = merged
       /\ last_route' = dest
       /\ node' = ImplEdgeMap(n)[dest]
    /\ UNCHANGED <<sup_iter, pass_log, failed_seen, poll, drafter>>

ImplementationEngineer ==
    /\ \E result \in ClaudeResults :
          ImplInvoke("implementation_engineer", implementation_engineer_node(state, result))
    /\ UNCHANGED loop_log

Correction ==
    /\ \E result \in ClaudeResults :
          ImplInvoke("correction", implementation_engineer_correction_node(state, result))
    /\ loop_log' = Append(loop_log, "correction")

Validation ==
    /\ ImplInvoke("validation", validation_node(state))
    /\ loop_log' =
          IF ~TruthyStr(state["claude_code_result"].error) THEN loop_log
          ELSE IF validation_node(state).validation_status = "passed"
               THEN loop_log \o <<"error", "forced">>
               ELSE Append(loop_log, "error")

ImplNext ==
    \/ ImplementationEngineer
    \/ Validation
    \/ Correction

ImplSpec == ImplInit /\ [][ImplNext]_vars

\* The executor takes the next step of the loop as long as there is one.
ImplFairSpec == ImplSpec /\ WF_vars(ImplNext)

\* Number of entries e in loop_log.
Count(e) == Cardinality({i \in DOMAIN loop_log : loop_log[i] = e})

CorrectionCount == Get(state, "correction_count", 0)

(***************************************************************************)
(* route_from_publisher applied to each State the publish step can leave.  *)
(***************************************************************************)

\* Breakdowns of up to MaxItems work items.
WorkItemLists ==
    UNION {[1..n -> {NewItem(t) : t \in ItemTypes}] : n \in 0..MaxItems}

\* work_items and current_work_index absent (direct run), None (polled run
\* without a stack), or a breakdown with an index from 0 to its length.
PublisherStates ==
    {MainState}
    \cup {PollState(phase_info) : phase_info \in PhaseInfos}
    \cup {Merge(PollState([phase |-> "implement", is_sub_issue |-> TRUE]),
                [work_items |-> Some(w), current_work_index |-> Some(i)]) :
          <<w, i>> \in {p \in WorkItemLists \X (0..MaxItems) : p[2] <= Len(p[1])}}

PublisherInit ==
    /\ state \in PublisherStates
    /\ node = "publisher"
    /\ prev = "start"
    /\ last_route = "none"
    /\ sup_iter = None
    /\ pass_log = <<>>
    /\ failed_seen = FALSE
    /\ loop_log = <<>>
    /\ poll = NoPoll
    /\ drafter = "none"

\* The conditional edge out of the publish step.
PublishContinue ==
    /\ node = "publisher"
    /\ last_route' = route_from_publisher(state)
    /\ node' = IF last_route' \in DOMAIN EdgeMap("publisher")
               THEN EdgeMap("publisher")[last_route'] ELSE "RAISED"
    /\ prev' = "publisher"
    /\ UNCHANGED <<state, sup_iter, pass_log, failed_seen, loop_log, poll, drafter>>

PublisherSpec == PublisherInit /\ [][PublishContinue]_vars

(***************************************************************************)
(* The merge of partial updates into State, applied update after update.   *)
(***************************************************************************)

\* The update of a step that returns {}.
EmptyUpdate == [k \in {} |-> None]

\* Partial updates: none, one key the State holds, one it may not hold,
\* or two keys at once.
Updates ==
    {EmptyUpdate}
    \cup {[status |-> v] : v \in {"drafting", "reviewing", "approved", "failed"}}
    \cup {[iteration_count |-> n] : n \in 0..2}
    \cup {[pr_url |-> o] : o \in {None, Some("https://pr")}}
    \cup {[status |-> "published", pr_url |-> Some("https://pr")]}

MergeInit ==
    /\ state \in {MainState} \cup {PollState(phase_info) : phase_info \in PhaseInfos}
    /\ node = "merge"
    /\ prev = "start"
    /\ last_route = "none"
    /\ sup_iter = None
    /\ pass_log = <<>>
    /\ failed_seen = FALSE
    /\ loop_log = <<>>
    /\ poll = NoPoll
    /\ drafter = "none"

\* The executor merges the update a step returned.
MergeUpdate ==
    /\ node = "merge"
    /\ \E u \in Updates : state' = Merge(state, u)
    /\ prev' = "merge"
    /\ UNCHANGED <<node, last_route, sup_iter, pass_log, failed_seen, loop_log, poll, drafter>>

MergeSpec == MergeInit /\ [][MergeUpdate]_vars

(***************************************************************************)
(* Properties.                                                             *)
(***************************************************************************)
Reviewers == {"security", "compliance", "design"}
Terminal == {"END", "RAISED"}

IterationCount == state["iteration_count"]
Feedback == state["review_feedback"]

\* The work item the stack is on, None outside a stack run.
ItemAtIndex(s) ==
    IF TruthyList(Get(s, "work_items", None))
       /\ Get(s, "current_work_index", None) # None
       /\ Val(s["current_work_index"]) < Len(Val(s["work_items"]))
    THEN Some(Val(s["work_items"])[Val(s["current_work_index"]) + 1])
    ELSE None

\* C1: in every reachable state of every run, direct or stacked,
\* iteration_count is at most 5.
C1_IterationCeiling == IterationCount <= 5

\* C2 as stated: whenever the supervisor runs with iteration_count >= 5 it
\* sets status = failed and the run ends, whatever review_feedback holds.
C2_CeilingAlwaysFails ==
    [][(node = "supervisor" /\ IterationCount >= 5)
          => (state'["status"] = "failed" /\ node' = "END")]_vars

\* C2 amended: whenever the supervisor runs with iteration_count >= 5 and
\* some entry of review_feedback has approved = false, it sets
\* status = failed and the run ends, whatever else review_feedback holds.
C2_CeilingFailsUnlessApproved ==
    [][(/\ node = "supervisor"
        /\ IterationCount >= 5
        /\ \E i \in 1..Len(Feedback) : ~Feedback[i].approved)
          => (state'["status"] = "failed" /\ node' = "END")]_vars

C2_Witness ==
    /\ prev = "supervisor"
    /\ node = "END"
    /\ state["status"] = "failed"
    /\ IterationCount = 5
    /\ Len(Feedback) = 2
    /\ Feedback[1].approved
    /\ ~Feedback[2].approved

\* C3: the approval loop sends the run to publish when every entry of
\* review_feedback is approved, else ends it with status = failed when
\* iteration_count >= 5, else sends it to a drafting step.
C3_ApprovalDecision ==
    [][node = "supervisor" =>
          IF \A i \in 1..Len(Feedback) : Feedback[i].approved
          THEN node' = "publisher"
          ELSE IF IterationCount >= 5
          THEN node' = "END" /\ state'["status"] = "failed"
          ELSE node' \in Drafters]_vars

\* Scenario A: two approving entries at iteration_count = 2 went to publish.
C3_Witness ==
    /\ prev = "supervisor"
    /\ node = "publisher"
    /\ IterationCount = 2
    /\ Len(Feedback) = 2
    /\ Feedback[1].approved
    /\ Feedback[2].approved

\* C4: iteration_count never decreases, only a drafting step changes it,
\* and it grows by exactly 1 between two consecutive supervisor calls.
C4_IterationMonotone ==
    [][/\ state'["iteration_count"] >= IterationCount
       /\ (state'["iteration_count"] # IterationCount => node \in Drafters)
       /\ (node = "supervisor" /\ sup_iter # None => IterationCount = Val(sup_iter) + 1)]_vars

\* A supervisor call after an earlier one, across a publish and a new item.
C4_Witness ==
    /\ node = "supervisor"
    /\ sup_iter = Some(2)
    /\ Get(state, "current_work_index", None) = Some(1)

\* C5: every run eventually reaches the terminal sentinel (or aborts on a
\* raised defect): no cycle of the graph is traversed forever.
C5_Terminates == <>(node \in Terminal)

\* A run that went round the approval loop and the stack loop and ended.
C5_Witness ==
    /\ node = "END"
    /\ IterationCount >= 4
    /\ Get(state, "current_work_index", None) = Some(3)

\* C6: at every supervisor call review_feedback holds exactly the entries
\* of the reviewers that ran since the latest drafting step, in order, and
\* a reviewer appends one entry without changing those already there.
C6_FreshFeedback ==
    [][/\ (node = "supervisor" => Feedback = pass_log)
       /\ (node \in Reviewers /\ node' # "RAISED" =>
              /\ Len(state'["review_feedback"]) = Len(Feedback) + 1
              /\ SubSeq(state'["review_feedback"], 1, Len(Feedback)) = Feedback
              /\ state'["review_feedback"][Len(Feedback) + 1].agent = node)]_vars

\* The supervisor judging the second pass of the second work item.
C6_Witness ==
    /\ node = "supervisor"
    /\ Len(Feedback) = 2
    /\ sup_iter # None
    /\ state["status"] = "reviewing"
    /\ Get(state, "current_work_index", None) = Some(1)
    /\ IterationCount >= 3

\* C7: after a drafting step a BACKEND item goes to compliance, a FRONTEND
\* item to design, anything else to security; compliance and design go to
\* security; the supervisor is always entered from security, whose entry
\* is the last of review_feedback.
C7_SecurityLast ==
    [][/\ (node \in Drafters /\ node' # "RAISED" =>
              node' = (IF ItemAtIndex(state) = None THEN "security"
                       ELSE IF Val(ItemAtIndex(state)).type = "BACKEND" THEN "compliance"
                       ELSE IF Val(ItemAtIndex(state)).type = "FRONTEND" THEN "design"
                       ELSE "security"))
       /\ (node \in {"compliance", "design"} /\ node' # "RAISED" => node' = "security")
       /\ (node' = "supervisor" =>
              /\ node = "security"
              /\ state'["review_feedback"] # <<>>
              /\ state'["review_feedback"][Len(state'["review_feedback"])].agent = "security")]_vars

C7_Witness ==
    /\ node = "supervisor"
    /\ prev = "security"
    /\ Len(Feedback) = 2
    /\ Feedback[1].agent = "design"
    /\ Feedback[2].agent = "security"

\* C8: whatever a router returns is a key of the edge map it is attached
\* with; checked for every router on every reachable State, under every
\* workflow phase (also one outside prd, erd, implement) and sub-issue flag.
C8_RouterRangeMapped ==
    /\ \A n \in Nodes :
          Router(n, state) # "RAISE" => Router(n, state) \in DOMAIN EdgeMap(n)
    /\ \A n \in {"entry_router", "classifier"}, sub \in BOOLEAN,
          phase \in {"prd", "erd", "implement", "unknown"} :
          LET s == Merge(state, [workflow_phase |-> phase, is_sub_issue |-> sub]) IN
          Router(n, s) \in DOMAIN EdgeMap(n)

\* The classifier's router returned "contractor", which its map sends to
\* the architect.
C8_Witness ==
    /\ prev = "classifier"
    /\ last_route = "contractor"
    /\ node = "architect"

\* C9: the router of the step that just ran returned a destination and did
\* not raise, also on a State whose optional fields hold None.
C9_RouterTotal ==
    prev \in Nodes /\ last_route # "none" =>
        last_route # "RAISE" /\ last_route \in DOMAIN EdgeMap(prev)

\* The publisher's router evaluated on a poll.py State with work_items None.
C9_Witness ==
    /\ prev = "publisher"
    /\ "work_items" \in DOMAIN state
    /\ state["work_items"] = None
    /\ state["current_work_index"] = None
    /\ last_route = "deployer"

\* C11: once a step has returned status = failed, no drafting, publishing or
\* deployment step is invoked any more, and when the run reaches the terminal
\* sentinel the final status is failed; this covers the architect returning
\* failed for an empty breakdown.
C11_FailurePropagates ==
    failed_seen =>
        /\ node \notin Drafters \cup {"publisher", "deployer"}
        /\ (node = "END" => state["status"] = "failed")

\* C12: in every reachable state of every run, status is one of the declared
\* values, also after a step whose external call failed.
C12_StatusDeclared ==
    state["status"] \in
        {"drafting", "reviewing", "approved", "failed", "published", "architected",
         "stack_complete", "working_contract", "working_backend", "working_frontend",
         "prd_ready", "spec_ready", "awaiting_prd_review", "awaiting_technical_review",
         "needs_correction", "implementation_ready"}

\* C13: in a run through the validation/correction loop correction_count
\* never exceeds 3, the correction step runs at most 3 times, and the loop
\* ends after finitely many steps with validation_status = passed, also when
\* every attempt reports an error.
C13_CorrectionBounded ==
    /\ [](CorrectionCount <= 3 /\ Count("correction") <= 3)
    /\ <>(node = "END" /\ Get(state, "validation_status", "") = "passed")

\* Three corrections were made, every attempt failed, and the loop has ended.
C13_Witness ==
    /\ node = "END"
    /\ Count("correction") = 3
    /\ CorrectionCount = 3
    /\ state["validation_status"] = "passed"

\* C14: the validation step reports failed, keeps the error and sets status
\* needs_correction when the result carries an error and correction_count < 3;
\* it reports passed with validation_errors cleared when the result carries
\* an error and correction_count >= 3, or carries no error; it never changes
\* correction_count, and each correction step raises it by exactly 1.
C14_ValidationDecision ==
    [][/\ node = "validation" =>
            LET error == state["claude_code_result"].error IN
            /\ ("correction_count" \in DOMAIN state') = ("correction_count" \in DOMAIN state)
            /\ Get(state', "correction_count", 0) = CorrectionCount
            /\ IF TruthyStr(error) /\ CorrectionCount < 3
               THEN /\ state'["validation_status"] = "failed"
                    /\ state'["validation_errors"] = error
                    /\ state'["status"] = "needs_correction"
                    /\ node' = "correction"
               ELSE /\ state'["validation_status"] = "passed"
                    /\ state'["validation_errors"] = None
                    /\ node' = "END"
       /\ node = "correction" =>
            state'["correction_count"] = CorrectionCount + 1
      ]_vars

\* An error found at correction_count = 3 was forced to passed.
C14_Witness ==
    /\ prev = "validation"
    /\ CorrectionCount = 3
    /\ TruthyStr(state["claude_code_result"].error)
    /\ state["validation_status"] = "passed"
    /\ state["validation_errors"] = None

\* C15 as stated: when every attempt reports an error, the validation step
\* forces progress on the third validation failure.
C15_ThirdFailureForces == (Count("forced") = 1) <=> (Count("error") >= 3)

\* C15: when every attempt reports an error, the validation step forces
\* progress on the fourth validation failure, the one found with
\* correction_count = 3; the first three each ask for a correction.
C15_FourthFailureForces ==
    /\ (Count("forced") = 1) <=> (Count("error") = 4)
    /\ Count("forced") <= 1
    /\ Count("error") <= 4
    /\ (loop_log # <<>> /\ loop_log[Len(loop_log)] = "error")
          => (Count("error") <= 3 /\ node = "correction")

\* Four validations in a row found an error and the last one was forced.
C15_Witness ==
    /\ Count("error") = 4
    /\ Count("forced") = 1
    /\ loop_log[Len(loop_log)] = "forced"

\* C16: the publish-continue router returns stack_manager exactly when
\* work_items is non-empty and current_work_index < len(work_items), and
\* deployer when work_items is absent, None or empty or the index equals the
\* length; with 3 items that is stack_manager at index 1, deployer at index 3.
C16_PublishContinue ==
    prev = "publisher" =>
        LET more == /\ "work_items" \in DOMAIN state
                    /\ state["work_items"] # None
                    /\ Len(Val(state["work_items"])) > 0
                    /\ Val(state["current_work_index"]) < Len(Val(state["work_items"])) IN
        /\ more => last_route = "stack_manager" /\ node = "stack_manager"
        /\ ~more => last_route = "deployer" /\ node = "deployer"

\* Three work items, index 1: the router went back to the stack manager.
C16_Witness ==
    /\ prev = "publisher"
    /\ "work_items" \in DOMAIN state
    /\ state["work_items"] # None
    /\ Len(Val(state["work_items"])) = 3
    /\ state["current_work_index"] = Some(1)
    /\ last_route = "stack_manager"

\* The run has a work-item stack: the planning step has written work_items.
StackRun(s) == "work_items" \in DOMAIN s /\ s["work_items"] # None

\* C17: in every state of a stack run 0 <= current_work_index <=
\* len(work_items); the planning step sets the index to 0, only the publish
\* step changes it afterwards (by one), and the stack manager, finding the
\* index equal to the length, reports stack_complete and touches nothing else.
C17_IndexWithinStack ==
    [][/\ StackRun(state') =>
            /\ state'["current_work_index"] # None
            /\ Val(state'["current_work_index"]) >= 0
            /\ Val(state'["current_work_index"]) <= Len(Val(state'["work_items"]))
       /\ (node = "architect" /\ node' # "RAISED") =>
            state'["current_work_index"] = Some(0)
       /\ (StackRun(state) /\ node = "publisher") =>
            Val(state'["current_work_index"]) = Val(state["current_work_index"]) + 1
       /\ (StackRun(state) /\ node \notin {"publisher", "architect"}) =>
            state'["current_work_index"] = state["current_work_index"]
       /\ (StackRun(state) /\ node = "stack_manager"
             /\ Val(state["current_work_index"]) = Len(Val(state["work_items"]))) =>
            /\ state' = [state EXCEPT !["status"] = "stack_complete"]
            /\ node' = "deployer"
       \* the same at the end of a stack of any length
       /\ StackRun(state) =>
            \A branch_ok \in BOOLEAN :
               pr_stack_manager_node(
                   [state EXCEPT !["current_work_index"] = Some(Len(Val(state["work_items"])))],
                   branch_ok) = [status |-> "stack_complete"]
      ]_vars

\* The publish step advanced the index to the end of a two-item stack.
C17_Witness ==
    /\ prev = "publisher"
    /\ StackRun(state)
    /\ Len(Val(state["work_items"])) = 2
    /\ state["current_work_index"] = Some(2)

\* C18: after the stack manager the run goes to the drafting step when status
\* begins with working_, to deploy when status is stack_complete and to the
\* terminal sentinel for every other status; a stack manager that finds no
\* issue or cannot create the branch leaves status = failed and the run ends
\* there, with no drafting step.
C18_StackLoopRouting ==
    [][(node = "stack_manager" /\ node' # "RAISED") =>
          LET status == state'["status"]
              item == ItemAtIndex(state) IN
          /\ last_route' = route_from_stack_manager(state')
          /\ StartsWithWorking(status) => node' = "contractor"
          /\ status = "stack_complete" => node' = "deployer"
          /\ (~StartsWithWorking(status) /\ status # "stack_complete") => node' = "END"
          /\ item # None =>
                LET no_issue == Merge(state, [current_issue |-> None])
                    update == pr_stack_manager_node(no_issue, TRUE) IN
                /\ update.status = "failed"
                /\ route_from_stack_manager(Merge(no_issue, update)) = "end"
          /\ (item # None /\ status \notin {"working_" \o Lower(Val(item).type)}) =>
                (status = "failed" /\ node' = "END")
          /\ \A st \in {"", "failed", "architected", "published", "drafting",
                        "reviewing", "approved", "spec_failed"} :
                route_from_stack_manager([state' EXCEPT !["status"] = st]) = "end"
      ]_vars

\* The stack manager could not create the branch of the item it was on.
C18_Witness ==
    /\ prev = "stack_manager"
    /\ ItemAtIndex(state) # None
    /\ Get(state, "current_issue", None) # None
    /\ state["status"] = "failed"
    /\ node = "END"

\* C19: the telemetry step is invoked only after a test step that reported
\* test_status = passed, the revert step only after, in addition, a telemetry
\* step that reported an error spike; after any other test or telemetry
\* outcome the run is at the terminal sentinel.
C19_TelemetryRevertGates ==
    LET test_status == Get(state, "test_status", None)
        telemetry_status == Get(state, "telemetry_status", None) IN
    /\ (node = "telemetry" \/ prev = "telemetry") => test_status = Some("passed")
    /\ (node = "reverter" \/ prev = "reverter") =>
          (test_status = Some("passed") /\ telemetry_status = Some("error_spike"))
    /\ (prev = "test_agent" /\ test_status # Some("passed")) => node = "END"
    /\ (prev = "telemetry" /\ telemetry_status # Some("error_spike")) => node = "END"

\* The revert step ran: the tests had passed and telemetry saw a spike.
C19_Witness ==
    /\ prev = "reverter"
    /\ state["test_status"] = Some("passed")
    /\ state["telemetry_status"] = Some("error_spike")
    /\ node = "END"

\* C20: merging is plain overwrite: an empty update leaves State unchanged,
\* a key of the update takes the update's value (so {k: v1} then {k: v2}
\* leaves v2), every other key keeps its value, no key is removed, and the
\* pass-through entry step, returning the State it was given, changes nothing.
C20_MergeOverwrites ==
    /\ Merge(state, EmptyUpdate) = state
    /\ Merge(state, state) = state
    /\ \A u \in Updates :
          LET merged == Merge(state, u) IN
          /\ DOMAIN merged = DOMAIN state \cup DOMAIN u
          /\ \A k \in DOMAIN u : merged[k] = u[k]
          /\ \A k \in DOMAIN state \ DOMAIN u : merged[k] = state[k]
          /\ \A u2 \in Updates :
                LET again == Merge(merged, u2) IN
                /\ DOMAIN state \subseteq DOMAIN again
                /\ \A k \in DOMAIN u2 : again[k] = u2[k]
                /\ \A k \in DOMAIN u \ DOMAIN u2 : again[k] = u[k]

\* status and pr_url were overwritten in a State that first had no pr_url.
C20_Witness ==
    /\ prev = "merge"
    /\ "work_items" \notin DOMAIN state
    /\ "pr_url" \in DOMAIN state
    /\ state["status"] = "failed"
    /\ state["pr_url"] = Some("https://pr")
    /\ state["iteration_count"] = 2

\* a is a prefix of b.
IsPrefix(a, b) == Len(a) <= Len(b) /\ SubSeq(b, 1, Len(a)) = a

\* C21: for every step of every run, the messages list before the step is a
\* prefix of the messages list after it: no entry is dropped, reordered or
\* rewritten.
C21_MessagesAppendOnly ==
    [][IsPrefix(state["messages"], state'["messages"])]_vars

\* A run that went through deploy, test, telemetry and revert: each of them
\* added its entry behind the earlier ones.
C21_Witness ==
    /\ prev = "reverter"
    /\ Len(state["messages"]) >= 5
    /\ state["messages"][1] = "Classified as: requires_contract"

\* C22: whatever database provisioning and preview deployment do, the deploy
\* step returns an update with ephemeral_status in {skipped, db_skipped,
\* deploy_skipped, deployed}, leaves status alone, hands over to the test
\* step, and writes preview_url only together with ephemeral_status = deployed.
C22_DeployBestEffort ==
    [][node = "deployer" =>
          /\ node' = "test_agent"
          /\ state'["ephemeral_status"] \in
                {Some("skipped"), Some("db_skipped"), Some("deploy_skipped"), Some("deployed")}
          /\ state'["status"] = state["status"]
          /\ state'["ephemeral_status"] # Some("deployed") =>
                /\ ("preview_url" \in DOMAIN state') = ("preview_url" \in DOMAIN state)
                /\ Get(state', "preview_url", None) = Get(state, "preview_url", None)
          /\ (Get(state, "stack_base_branch", None) = None) =>
                state'["ephemeral_status"] = Some("skipped")
      ]_vars

\* The preview deployment failed after the database was provisioned: the
\* run is on its way to the test step with no preview_url.
C22_Witness ==
    /\ prev = "deployer"
    /\ state["ephemeral_status"] = Some("deploy_skipped")
    /\ Get(state, "preview_url", None) = None
    /\ node = "test_agent"

\* C23: the three planner steps and the sub-issue handler never raise: each
\* returns an update whatever the State and whatever its external calls do,
\* also on a State with no current_issue and with an issue tracker that
\* fails or is not configured.
C23_PlannersNeverRaise ==
    /\ prev \in Planners \cup {"sub_issue_handler"} => node # "RAISED"
    /\ node \in Planners =>
          LET no_issue == Merge(state, [current_issue |-> None]) IN
          \A r \in PlannerResults :
             /\ ~Raised(contractor_planner_node(no_issue, r))
             /\ ~Raised(infra_engineer_planner_node(no_issue, r))
             /\ ~Raised(software_engineer_planner_node(no_issue, r))

\* C24 as stated: after the classifier request_type is one of the three tags
\* and the run goes, in the implement phase, to the contract, infrastructure
\* or software implementation step, in any other phase to the matching
\* planner.
C24_DispatchToOwnStep ==
    [][(node = "classifier" /\ node' # "RAISED") =>
          LET request_type == state'["request_type"] IN
          /\ request_type \in {Some(rt) : rt \in RequestTypes}
          /\ node' =
                IF Get(state', "workflow_phase", "") = "implement"
                THEN CASE request_type = Some("requires_contract") -> "contractor"
                       [] request_type = Some("infrastructure") -> "infra_engineer"
                       [] request_type = Some("general") -> "software_engineer"
                ELSE CASE request_type = Some("requires_contract") -> "contractor_planner"
                       [] request_type = Some("infrastructure") -> "infra_engineer_planner"
                       [] request_type = Some("general") -> "software_engineer_planner"
      ]_vars

\* C24: after the classifier request_type is one of the three tags; in the
\* implement phase an infrastructure or general request goes to its own
\* implementation step and a requires_contract request goes to the architect
\* (whose stack leads to the contractor); in any other phase each tag goes to
\* its own planner.
C24_DispatchViaArchitect ==
    [][(node = "classifier" /\ node' # "RAISED") =>
          LET request_type == state'["request_type"] IN
          /\ request_type \in {Some(rt) : rt \in RequestTypes}
          /\ node' =
                IF Get(state', "workflow_phase", "") = "implement"
                THEN CASE request_type = Some("requires_contract") -> "architect"
                       [] request_type = Some("infrastructure") -> "infra_engineer"
                       [] request_type = Some("general") -> "software_engineer"
                ELSE CASE request_type = Some("requires_contract") -> "contractor_planner"
                       [] request_type = Some("infrastructure") -> "infra_engineer_planner"
                       [] request_type = Some("general") -> "software_engineer_planner"
      ]_vars

\* An implement-phase request classified requires_contract is at the architect.
C24_Witness ==
    /\ prev = "classifier"
    /\ state["workflow_phase"] = "implement"
    /\ state["request_type"] = Some("requires_contract")
    /\ last_route = "contractor"
    /\ node = "architect"

\* C25: once the planning step has written work_items, no step changes its
\* length; the stack manager changes only branch_name and status of the item
\* at current_work_index, and nothing of work_items when it fails; no other
\* step changes work_items at all.
C25_WorkItemsFrame ==
    [][StackRun(state) =>
          LET before == Val(state["work_items"])
              after == Val(state'["work_items"])
              at == Val(state["current_work_index"]) + 1 IN
          /\ StackRun(state')
          /\ Len(after) = Len(before)
          /\ node # "stack_manager" => after = before
          /\ (node = "stack_manager" /\ state'["status"] \in {"failed", "stack_complete"}) =>
                after = before
          /\ node = "stack_manager" =>
                \A i \in 1..Len(before) :
                   /\ i # at => after[i] = before[i]
                   /\ after[i] = [before[i] EXCEPT !.branch_name = after[i].branch_name,
                                                   !.status = after[i].status]
      ]_vars

\* The stack manager has started the second of three items: the first keeps
\* what it was given, the third is untouched.
C25_Witness ==
    /\ prev = "stack_manager"
    /\ StackRun(state)
    /\ Len(Val(state["work_items"])) = 3
    /\ state["current_work_index"] = Some(1)
    /\ Val(state["work_items"])[1].status = Some("in_progress")
    /\ Val(state["work_items"])[2].status = Some("in_progress")
    /\ Val(state["work_items"])[3] = NewItem(Val(state["work_items"])[3].type)

\* C26: a reviewer never aborts the run over what the text generator
\* replied: a reply that cannot be parsed, or has no approved field, becomes
\* a feedback entry with approved = false.
C26_ReviewNeverAborts ==
    [][(node \in Reviewers) =>
          \A v \in Verdicts \ {"approve", "reject"} :
             LET update == CASE node = "security" -> security_node(state, v)
                             [] node = "compliance" -> compliance_reviewer_node(state, v)
                             [] node = "design" -> design_reviewer_node(state, v) IN
             /\ ~Raised(update)
             /\ Len(update.review_feedback) = Len(state["review_feedback"]) + 1
             /\ ~update.review_feedback[Len(update.review_feedback)].approved
      ]_vars


-----------------------------------------------------------------------------
\* The outer service loop (src/agent/poll.py).  main calls poll_and_process
\* for ever; poll_and_process walks the action columns, fetches the issues
\* of each one and hands every issue to process_issue, which moves it in
\* the tracker, runs the graph on it and reports the outcome.  The graph
\* run is taken here by its outcome: it raised, or it ended with a status,
\* and a step of it may have moved the issue to another column.

ACTION_COLUMNS == <<"AI: Create PRD", "AI: Create ERD", "AI: Implement">>

ActionColumns == {ACTION_COLUMNS[k] : k \in 1..Len(ACTION_COLUMNS)}

Issues == {"ENG-1", "ENG-2"}

MaxCycles == 2

\* A call on the tracker adapter: transition_issue returns True ("ok"),
\* returns False because the column or the issue was not found or the
\* mutation did not succeed ("refused"), or raises from raise_for_status.
CallOutcomes == {"ok", "refused", "raised"}

determine_workflow_phase(state_name) ==
    IF state_name = "AI: Create PRD" THEN "prd"
    ELSE IF state_name = "AI: Create ERD" THEN "erd"
    ELSE IF state_name = "AI: Implement" THEN "implement"
    ELSE "unknown"

RunResult(raised, status, moved_to) ==
    [raised |-> raised, status |-> status, moved_to |-> moved_to]

\* What app.invoke can come back with in each phase.  moved_to is the column
\* a step of the run moved the issue to, None when no step moved it: the
\* approval gate and the reverter swallow every failure of their tracker
\* calls, and the sub-issue handler ignores a False from transition_issue.
RunResults(phase) ==
    {RunResult(TRUE, "", None)} \cup
    (IF phase = "prd"
     THEN {RunResult(FALSE, "awaiting_prd_review", Some("Human: Review PRD")),
           RunResult(FALSE, "awaiting_prd_review", None),
           RunResult(FALSE, "failed", None)}
     ELSE IF phase = "erd"
     THEN {RunResult(FALSE, "awaiting_technical_review", Some("AI: Awaiting Sub-task")),
           RunResult(FALSE, "awaiting_technical_review", None),
           RunResult(FALSE, "spec_failed", None),
           RunResult(FALSE, "failed", None)}
     ELSE {RunResult(FALSE, "published", Some("Human: Review PR")),
           RunResult(FALSE, "published", Some("AI: Failed")),
           RunResult(FALSE, "published", None),
           RunResult(FALSE, "stack_complete", None),
           RunResult(FALSE, "failed", None)})

\* adapter.transition_issue(issue.id, target) on a column map.
transition_issue(column, issue, target, outcome) ==
    IF outcome = "ok" THEN [column EXCEPT ![issue] = target] ELSE column

\* The body of process_issue from the try statement on.  t and c are the
\* outcomes of the transition and the comment on the failure branch inside
\* the try, te and ce those of the except block.  A call that raises inside
\* the try lands in the except block; one that raises inside the except
\* block leaves process_issue.  Returns the column map and whether
\* process_issue returned normally.
report_outcome(column, issue, run, t, c, te, ce) ==
    LET in_handler == [column   |-> transition_issue(column, issue, "AI: Failed", te),
                       returned |-> te # "raised" /\ ce # "raised"]
    IN  IF run.raised THEN in_handler
        ELSE IF run.status \in {"failed", "error"}
        THEN IF t = "raised"
             THEN in_handler
             ELSE IF c = "raised"
             THEN [column   |-> transition_issue(
                                    transition_issue(column, issue, "AI: Failed", t),
                                    issue, "AI: Failed", te),
                   returned |-> te # "raised" /\ ce # "raised"]
             ELSE [column   |-> transition_issue(column, issue, "AI: Failed", t),
                   returned |-> TRUE]
        ELSE [column |-> column, returned |-> TRUE]

\* process_issue(issue, adapter, phase_info): t1 is the outcome of the move
\* to "AI: In Progress", made before the try statement in the erd and
\* implement phases only.  ran is whether app.invoke was called.
process_issue(column, issue, phase, t1, run, t, c, te, ce) ==
    LET moves_first == phase \in {"erd", "implement"}
        started == IF moves_first
                   THEN transition_issue(column, issue, "AI: In Progress", t1)
                   ELSE column
        after_run == IF run.moved_to = None THEN started
                     ELSE [started EXCEPT ![issue] = Val(run.moved_to)]
        reported == report_outcome(after_run, issue, run, t, c, te, ce)
    IN  IF moves_first /\ t1 = "raised"
        THEN [column |-> column, returned |-> FALSE, ran |-> FALSE]
        ELSE [column |-> reported.column, returned |-> reported.returned, ran |-> TRUE]

\* issues = adapter.get_issues_in_state(TEAM_KEY, column), in tracker order
InColumn(column, name) ==
    LET a == IF column["ENG-1"] = name THEN <<"ENG-1">> ELSE <<>>
        b == IF column["ENG-2"] = name THEN <<"ENG-2">> ELSE <<>>
    IN  a \o b

NoCall == [issue |-> "", run |-> "none", returned |-> TRUE, tracker_ok |-> TRUE]

\* alive: main is still looping.  cycle: calls of poll_and_process begun.
\* at: index of the action column being walked, 0 between cycles.
\* fetched: the issues of that column have been fetched into queue.
\* runs: graph runs of each issue since it was last put in an action column
\* by a person.  last, calls: the latest process_issue call (tracker_ok:
\* every tracker call it could make succeeds) and their count.
PollInit ==
    /\ poll \in {[alive |-> TRUE, cycle |-> 0, at |-> 0, fetched |-> FALSE,
                  queue |-> <<>>, column |-> col,
                  runs |-> [i \in Issues |-> 0], last |-> NoCall, calls |-> 0] :
                 col \in [Issues -> ActionColumns]}
    /\ state = MainState
    /\ node = "END"
    /\ prev = "START"
    /\ last_route = "none"
    /\ sup_iter = <<>>
    /\ pass_log = <<>>
    /\ failed_seen = FALSE
    /\ loop_log = <<>>
    /\ drafter = "none"

PollFrame == UNCHANGED <<state, node, prev, last_route, sup_iter, pass_log, failed_seen, loop_log, drafter>>

\* main: while True: poll_and_process()
StartCycle ==
    /\ poll.alive /\ poll.at = 0 /\ poll.cycle < MaxCycles
    /\ poll' = [poll EXCEPT !.cycle = @ + 1, !.at = 1, !.fetched = FALSE]
    /\ PollFrame

\* for column in ACTION_COLUMNS: issues = adapter.get_issues_in_state(...)
FetchColumn ==
    /\ poll.alive /\ poll.at \in 1..Len(ACTION_COLUMNS) /\ ~poll.fetched
    /\ \E outcome \in {"ok", "raised"} :
         poll' = IF outcome = "raised"
                 THEN [poll EXCEPT !.alive = FALSE]
                 ELSE [poll EXCEPT !.fetched = TRUE,
                                   !.queue = InColumn(poll.column, ACTION_COLUMNS[poll.at])]
    /\ PollFrame

\* for issue in issues: process_issue(issue, adapter, phase_info)
ProcessIssue ==
    /\ poll.alive /\ poll.fetched /\ poll.queue # <<>>
    /\ LET issue == Head(poll.queue)
           phase == determine_workflow_phase(ACTION_COLUMNS[poll.at])
       IN  \E t1 \in CallOutcomes, run \in RunResults(phase),
              t \in CallOutcomes, c \in CallOutcomes,
              te \in CallOutcomes, ce \in CallOutcomes :
             LET r == process_issue(poll.column, issue, phase, t1, run, t, c, te, ce)
             IN  poll' = [poll EXCEPT
                            !.column = r.column,
                            !.alive = r.returned,
                            !.queue = Tail(@),
                            !.runs[issue] = IF r.ran THEN @ + 1 ELSE @,
                            !.calls = @ + 1,
                            !.last = [issue |-> issue,
                                      run |-> IF ~r.ran THEN "none"
                                              ELSE IF run.raised THEN "raised"
                                              ELSE run.status,
                                      returned |-> r.returned,
                                      tracker_ok |-> {t1, t, c, te, ce} = {"ok"}]]
    /\ PollFrame

\* the issues of the column are done: next column, or the end of the cycle
\* with check_pr_merges_and_complete and check_in_progress_parents, which
\* move finished issues to "Done" and whose tracker calls may raise.
NextColumn ==
    /\ poll.alive /\ poll.fetched /\ poll.queue = <<>>
    /\ IF poll.at < Len(ACTION_COLUMNS)
       THEN poll' = [poll EXCEPT !.at = @ + 1, !.fetched = FALSE]
       ELSE \E outcome \in {"ok", "raised"},
               done \in SUBSET {i \in Issues :
                          poll.column[i] \in {"Human: Review PR", "AI: In Progress"}} :
              poll' = [poll EXCEPT
                         !.at = 0, !.fetched = FALSE,
                         !.alive = (outcome = "ok"),
                         !.column = [i \in Issues |->
                                       IF i \in done THEN "Done" ELSE poll.column[i]]]
    /\ PollFrame

\* A person approves the PRD between two cycles and moves the issue on to
\* the next action column, or puts a failed issue back in the column it
\* failed in.
HumanMove ==
    /\ poll.alive /\ poll.at = 0
    /\ \E i \in Issues, target \in ActionColumns :
         /\ \/ poll.column[i] = "Human: Review PRD" /\ target = "AI: Create ERD"
            \/ poll.column[i] = "AI: Failed"
         /\ poll' = [poll EXCEPT !.column[i] = target, !.runs[i] = 0]
    /\ PollFrame

PollNext == StartCycle \/ FetchColumn \/ ProcessIssue \/ NextColumn \/ HumanMove

PollSpec == PollInit /\ [][PollNext]_vars


\* C27: nothing outside the graph retries a run: over all poll cycles an
\* issue that was run through the graph once while in an action column is
\* not run again unless a person moves it back into an action column,
\* whatever the run and the tracker calls made during it came to.
C27_NoOutsideRetry ==
    "runs" \in DOMAIN poll =>
        \A i \in Issues : poll.runs[i] <= 1

\* C28: when a run raises, process_issue moves the issue to "AI: Failed"
\* and returns normally, so the loop goes on with the remaining issues and
\* the later cycles, also when the tracker calls themselves fail.
C28_DefectMarksFailed ==
    [][("calls" \in DOMAIN poll /\ poll'.calls # poll.calls /\ poll'.last.run = "raised")
         => (/\ poll'.last.returned
             /\ poll'.alive
             /\ poll'.column[poll'.last.issue] = "AI: Failed")]_vars


\* C29: the publish step is entered only from a supervisor invocation at
\* which review_feedback was non-empty and every entry of it, the security
\* reviewer's entry for the current draft included, had approved = true;
\* on an empty review_feedback the supervisor never answers approved.
C29_PublishNeedsApprovals ==
    [][/\ (node' = "publisher" =>
             /\ node = "supervisor"
             /\ Feedback # <<>>
             /\ \A i \in 1..Len(Feedback) : Feedback[i].approved
             /\ Feedback[Len(Feedback)].agent = "security"
             /\ pass_log # <<>>
             /\ pass_log[Len(pass_log)] = Feedback[Len(Feedback)]
             /\ state'["status"] = "approved")
       /\ (node = "supervisor" =>
             supervisor_node(Merge(state, [review_feedback |-> <<>>])).status # "approved")]_vars

\* A single approving security entry took the run from the supervisor to
\* the publish step.
C29_Witness ==
    /\ prev = "supervisor"
    /\ node = "publisher"
    /\ Len(Feedback) = 1
    /\ Feedback[1].agent = "security"
    /\ Feedback[1].approved


\* C30: when the approval loop routes back for another pass, the drafting
\* step it re-enters is the one that produced the draft just reviewed:
\* contractor in stack runs, infra engineer for infrastructure requests,
\* software engineer for general requests; no run switches drafting step
\* between passes.
C30_SameDrafter ==
    [][/\ (node = "supervisor" /\ node' \in Drafters =>
             /\ node' = drafter
             /\ node' = (IF StackRun(state) THEN "contractor"
                         ELSE IF state["request_type"] = Some("infrastructure")
                         THEN "infra_engineer"
                         ELSE "software_engineer")
             /\ (~StackRun(state) =>
                   state["request_type"] \in {Some("infrastructure"), Some("general")}))
       /\ (drafter # "none" => drafter' = drafter)]_vars

\* The infra engineer is drafting its second pass after a rejection.
C30_Witness ==
    /\ node = "infra_engineer"
    /\ prev = "supervisor"
    /\ drafter = "infra_engineer"
    /\ state["request_type"] = Some("infrastructure")
    /\ IterationCount = 1


\* C31: the three pipeline variants are disjoint within one run: a run
\* entered with workflow_phase = prd (or with no phase) invokes only the
\* product manager and the approval gate; a run entered with erd invokes
\* only the classifier, one planner and possibly the sub-issue handler; a
\* run entered with implement never invokes the product manager, the
\* approval gate, a planner or the sub-issue handler.
C31_VariantsDisjoint ==
    [][LET phase == Get(state, "workflow_phase", "prd") IN
       /\ Get(state', "workflow_phase", "prd") = phase
       /\ (phase = "prd" =>
             node' \in {"product_manager", "approval_gate"} \cup Terminal)
       /\ (phase = "erd" =>
             /\ node' \in {"classifier", "sub_issue_handler"} \cup Planners \cup Terminal
             /\ (node' = "classifier" => node = "entry_router")
             /\ (node' \in Planners => node = "classifier")
             /\ (node' = "sub_issue_handler" => node \in Planners))
       /\ (phase = "implement" =>
             node' \notin {"product_manager", "approval_gate", "sub_issue_handler"}
                          \cup Planners)]_vars

\* An erd run went through the classifier and one planner and is at the
\* sub-issue handler.
C31_Witness ==
    /\ Get(state, "workflow_phase", "prd") = "erd"
    /\ node = "sub_issue_handler"
    /\ prev \in Planners


\* C32: the approval gate always ends the run: after it the next
\* destination is the terminal sentinel in every State, the classifier is
\* never invoked after it although its edge map has a classifier entry, and
\* a PRD-phase run therefore ends with status awaiting_prd_review or failed.
C32_GateEndsRun ==
    [][/\ (node = "approval_gate" /\ node' # "RAISED" =>
             /\ node' = "END"
             /\ last_route' = "end"
             /\ "classifier" \in DOMAIN EdgeMap("approval_gate")
             /\ state'["status"] \in {"awaiting_prd_review", "failed"})
       /\ (node' = "classifier" => prev' # "approval_gate")
       /\ (Get(state', "workflow_phase", "prd") = "prd" /\ node' = "END" =>
             /\ prev' = "approval_gate"
             /\ state'["status"] \in {"awaiting_prd_review", "failed"})]_vars

\* The gate found an empty PRD, reported failed, and the run ended there.
C32_Witness ==
    /\ prev = "approval_gate"
    /\ node = "END"
    /\ state["status"] = "failed"
    /\ state["prd"] = Some({})


\* C33: in a stack run the deploy step runs only after every work item has
\* been published: whenever the deploy step is invoked with work_items
\* present, current_work_index = len(work_items) and the list is non-empty.
C33_DeployAfterAllPublished ==
    (node = "deployer" /\ StackRun(state)) =>
        /\ state["current_work_index"] = Some(Len(Val(state["work_items"])))
        /\ Val(state["work_items"]) # <<>>


\* C34: telemetry and revert can run only after a real deployment: in every
\* run where the deploy step did not report ephemeral_status = deployed, the
\* test step reports test_status = skipped and the run ends right after it,
\* the telemetry and revert steps never being invoked.
C34_NoDeployNoTelemetry ==
    [][/\ (node = "test_agent" /\ Get(state, "ephemeral_status", None) # Some("deployed") =>
             /\ state'["test_status"] = Some("skipped")
             /\ node' = "END")
       /\ (node' \in {"telemetry", "reverter"} =>
             Get(state', "ephemeral_status", None) = Some("deployed"))]_vars

\* The database could not be provisioned: the tests were skipped and the
\* run ended after the test step.
C34_Witness ==
    /\ prev = "test_agent"
    /\ node = "END"
    /\ state["ephemeral_status"] = Some("db_skipped")
    /\ state["test_status"] = Some("skipped")


\* C35: in a run classified infrastructure or general (no planning step, no
\* work items) stack_base_branch is never set, so the deploy step always
\* reports ephemeral_status = skipped and the run ends after the test step;
\* an approved and published infrastructure or general change is never
\* followed by telemetry or an automatic revert.
C35_PlainRunsNeverDeploy ==
    [][/\ (node' \in {"infra_engineer", "software_engineer"} =>
             /\ ~StackRun(state')
             /\ state'["request_type"] \in {Some("infrastructure"), Some("general")})
       /\ (~StackRun(state') =>
             /\ Get(state', "stack_base_branch", None) = None
             /\ node' \notin {"telemetry", "reverter"}
             /\ (node = "deployer" /\ node' # "RAISED" =>
                   /\ state'["ephemeral_status"] = Some("skipped")
                   /\ node' = "test_agent")
             /\ (node = "test_agent" /\ node' # "RAISED" =>
                   /\ state'["test_status"] = Some("skipped")
                   /\ node' = "END"))]_vars

\* A general change was approved and published; the deploy was skipped and
\* the run ended after the test step.
C35_Witness ==
    /\ prev = "test_agent"
    /\ node = "END"
    /\ ~StackRun(state)
    /\ state["request_type"] = Some("general")
    /\ state["status"] = "published"
    /\ state["ephemeral_status"] = Some("skipped")
    /\ state["test_status"] = Some("skipped")


\* The base the stack manager hands to create_branch for the item at the
\* index: "main" for the CONTRACT item, else state.get("stack_base_branch",
\* "main"), which is None when the key is present and unset.
base_branch(s) ==
    IF Val(ItemAtIndex(s)).type = "CONTRACT" THEN Some("main")
    ELSE Get(s, "stack_base_branch", Some("main"))

\* C36: in a stack run stack_base_branch is set to the contract branch when
\* the CONTRACT item is started and left unchanged by every later item;
\* every BACKEND or FRONTEND item is branched from that contract branch, and
\* no work item is ever branched from an absent base, whatever the order
\* and kinds of the planned work items.
C36_BranchedFromContract ==
    [][(node = "stack_manager" /\ ItemAtIndex(state) # None
          /\ Get(state, "current_issue", None) # None) =>
          LET item == Val(ItemAtIndex(state))
              contract == Some(BranchName(Val(state["current_issue"]), "CONTRACT")) IN
          /\ base_branch(state) # None
          /\ (item.type = "CONTRACT" /\ node' = "contractor" =>
                state'["stack_base_branch"] = contract)
          /\ (item.type # "CONTRACT" =>
                /\ base_branch(state) = contract
                /\ (node' = "contractor" =>
                      state'["stack_base_branch"] = state["stack_base_branch"]))]_vars


\* C37: every run that ends without success leaves its ticket in "AI:
\* Failed": whenever app.invoke returns a terminal status that reports the
\* failure of a step (a planner failure in the ERD phase included),
\* process_issue moves the issue to "AI: Failed", so no issue stays in "AI:
\* In Progress" after its run has ended.  Checked where the tracker itself
\* answers every call.
C37_FailedRunMarksFailed ==
    [][("calls" \in DOMAIN poll /\ poll'.calls # poll.calls
          /\ poll'.last.tracker_ok
          /\ poll'.last.run \in {"failed", "error", "spec_failed"})
         => (/\ poll'.column[poll'.last.issue] = "AI: Failed"
             /\ poll'.column[poll'.last.issue] # "AI: In Progress")]_vars


\* C38: the telemetry step reports an error spike exactly when the sum of
\* the last five error counts is strictly greater than 100: a sum of exactly
\* 100 is reported healthy and does not lead to a revert, and a missing
\* configuration or a failed query is reported as skipped or error, never
\* as an error spike.
C38_SpikeAboveThreshold ==
    [][node = "telemetry" =>
          /\ \A stats \in Stats :
                LET n == Len(stats)
                    FromEnd(k) == IF k <= n THEN stats[n - k + 1] ELSE 0
                    total == FromEnd(1) + FromEnd(2) + FromEnd(3) + FromEnd(4) + FromEnd(5)
                    u == telemetry_node(state, TRUE, TRUE, RecentErrors(stats)) IN
                /\ u.telemetry_status =
                      (IF total > 100 THEN Some("error_spike") ELSE Some("healthy"))
                /\ u.error_count = Some(total)
          /\ \A fetched \in BOOLEAN, sum \in ErrorSums :
                telemetry_node(state, FALSE, fetched, sum).telemetry_status = Some("skipped")
          /\ \A sum \in ErrorSums :
                telemetry_node(state, TRUE, FALSE, sum).telemetry_status = Some("error")
          /\ state'["telemetry_status"] \in
                {Some("skipped"), Some("error"), Some("healthy"), Some("error_spike")}
          /\ (state'["telemetry_status"] = Some("error_spike")) =
                (node' = "reverter")
          /\ (state'["telemetry_status"] = Some("error_spike") =>
                Val(state'["error_count"]) > 100)
          /\ (state'["telemetry_status"] = Some("healthy") =>
                /\ Val(state'["error_count"]) <= 100
                /\ node' = "END")]_vars

\* The last five counts summed to exactly 100: reported healthy, and the
\* run ended without a revert.
C38_Witness ==
    /\ prev = "telemetry"
    /\ node = "END"
    /\ state["telemetry_status"] = Some("healthy")
    /\ state["error_count"] = Some(100)

====
